---- MODULE Spec2Model ----
(***************************************************************************)
(* Model of Jun-del/audit-log.                                             *)
(*                                                                         *)
(*  - src/src/utils/primary-key.ts : extractPrimaryKey, extractPrimaryKeys,*)
(*    extractConfiguredPrimaryKey, safeStringifyForPK, together with the   *)
(*    ECMAScript operations they call (property lookup, String(),          *)
(*    JSON.stringify with a replacer, Date conversions).                   *)
(*  - the interception layer / audit engine (createExecutionProxy,         *)
(*    createAuditLogs, the audit writer), whose code is documented in      *)
(*    src/history/*.md and exercised by src/tests/unit.                    *)
(***************************************************************************)
EXTENDS Integers, Sequences, FiniteSets, TLC

VARIABLES
  tz,             \* the process's time zone (read by String(date))
  record,         \* extractPrimaryKey's argument: a row, as its <<field, value>> pairs in insertion order
  record2,        \* a second row, for the properties that compare two rows
  tableName,      \* extractPrimaryKey's argument
  primaryKeyMap,  \* extractPrimaryKey's argument: <<table, key specification>> pairs
  result,         \* what the call on record returned or threw (NotCalled before the call)
  result2,        \* the same for record2
  config,         \* the audit logger's configuration (createAuditLogger's second argument)
  db,             \* the audited table's committed rows, by row number (<<>>: no such row)
  audit,          \* the committed rows of the audit table
  pc,             \* where each caller's intercepted statement stands
  stmt,           \* each caller's statement
  before,         \* the before-state the explicit read returned, if it ran
  returned,       \* the rows the mutating statement returned
  built,          \* the audit records built for the statement
  error,          \* the error the engine threw to the caller ("none": none)
  queries,        \* the queries issued for the statement, in order
  locked,         \* the rows each caller's open transaction has written
  overlay,        \* their uncommitted state in that transaction
  txAudit,        \* the audit rows written in that transaction, not yet committed
  issued,         \* statements issued so far; the next one's correlation id
  pre,            \* history: the target rows as they were immediately before the mutation
  committed,      \* history: the durable row mutations, as [txn, row, action, mode, error]
  rolledBack,     \* history: the statements whose transaction was rolled back
  ddlName,        \* createAuditTableSQLFor's argument (Undefined: left out)
  ddlResult,      \* the SQL it returned or the error it threw (NotCalled before the call)
  setupName,      \* each caller's table name argument for the setup routine
  setupSql,       \* the statements of each caller's setup script
  setupPc,        \* where each caller's run of the setup script stands
  setupPos,       \* the statement of the script it executes next
  catalog,        \* the database's committed schema objects
  work,           \* the schema as each caller's open transaction sees it
  advisoryLock,   \* the holder of the advisory lock ("free": nobody)
  runs            \* setup runs started so far

(***************************************************************************)
(* ECMAScript values.  A string value is a sequence of characters; the     *)
(* texts the functions return are TLA+ strings built by concatenation.     *)
(***************************************************************************)
Undefined == [t |-> "undefined"]
Null == [t |-> "null"]
Num(n) == [t |-> "number", num |-> n]
Str(s) == [t |-> "string", chars |-> s]
BigIntV(n) == [t |-> "bigint", big |-> n]
DateV(tv) == [t |-> "date", valid |-> TRUE, tv |-> tv]
InvalidDate == [t |-> "date", valid |-> FALSE, tv |-> 0]
Ref(o) == [t |-> "object", ref |-> o]
Fn(name) == [t |-> "function", fname |-> name]

\* Completion records: a normal return or a thrown exception.
Return(v) == [kind |-> "return", value |-> v]
Throw(e) == [kind |-> "throw", error |-> e]

\* The call has not been made.
NotCalled == [kind |-> "none"]

(***************************************************************************)
(* The objects a row's fields may refer to.  Every object has one own      *)
(* enumerable property "p".  o1 and o2 are structurally equal and distinct *)
(* in identity, o3 is a reference cycle, o4 has a null prototype (no       *)
(* toString, no valueOf), o5 has a toJSON method that throws.              *)
(***************************************************************************)
Refs == {"o1", "o2", "o3", "o4", "o5"}

heap ==
  [o \in Refs |->
     CASE o = "o1" -> [proto |-> "Object", toJSON |-> "none", p |-> Num(1)]
       [] o = "o2" -> [proto |-> "Object", toJSON |-> "none", p |-> Num(1)]
       [] o = "o3" -> [proto |-> "Object", toJSON |-> "none", p |-> Ref("o3")]
       [] o = "o4" -> [proto |-> "null", toJSON |-> "none", p |-> Undefined]
       [] o = "o5" -> [proto |-> "Object", toJSON |-> "throws", p |-> Num(1)]]

\* The members a plain object inherits from Object.prototype.
ObjectPrototypeMembers ==
  {"constructor", "toString", "valueOf", "hasOwnProperty"}

\* The value of an inherited member: constructor is the function Object.
InheritedMember(name) == IF name = "constructor" THEN Fn("Object") ELSE Fn(name)

\* String(f) of a built-in function, which is also the property key f converts to.
FunctionSource(f) == "function " \o f.fname \o "() { [native code] }"

(***************************************************************************)
(* Number and string conversions.                                          *)
(***************************************************************************)
DigitChar(d) ==
  CASE d = 0 -> "0" [] d = 1 -> "1" [] d = 2 -> "2" [] d = 3 -> "3"
    [] d = 4 -> "4" [] d = 5 -> "5" [] d = 6 -> "6" [] d = 7 -> "7"
    [] d = 8 -> "8" [] d = 9 -> "9"

RECURSIVE NatToString(_)
NatToString(n) ==
  IF n < 10 THEN DigitChar(n)
  ELSE NatToString(n \div 10) \o DigitChar(n % 10)

\* Number::toString and BigInt::toString of an integer, radix 10.
IntToString(n) == IF n < 0 THEN "-" \o NatToString(-n) ELSE NatToString(n)

RECURSIVE NatToChars(_)
NatToChars(n) ==
  IF n < 10 THEN <<DigitChar(n)>>
  ELSE NatToChars(n \div 10) \o <<DigitChar(n % 10)>>

IntToChars(n) == IF n < 0 THEN <<"-">> \o NatToChars(-n) ELSE NatToChars(n)

RECURSIVE CharsToString(_)
CharsToString(s) ==
  IF s = <<>> THEN "" ELSE Head(s) \o CharsToString(Tail(s))

\* The digits d left-padded with zeros to at least w characters.
PadStart(d, w) ==
  IF Len(d) >= w THEN d
  ELSE [i \in 1..w |-> IF i <= w - Len(d) THEN "0" ELSE d[i - (w - Len(d))]]

\* n in decimal, left-padded with zeros to at least w digits.
ZeroPad(n, w) == PadStart(NatToChars(n), w)

(***************************************************************************)
(* Date: the time value is milliseconds since the epoch.                   *)
(***************************************************************************)
MsPerDay == 24 * 60 * 60 * 1000

Day(tv) == tv \div MsPerDay
TimeWithinDay(tv) == tv % MsPerDay
HourFromTime(tv) == TimeWithinDay(tv) \div (60 * 60 * 1000)
MinFromTime(tv) == (TimeWithinDay(tv) \div (60 * 1000)) % 60
SecFromTime(tv) == (TimeWithinDay(tv) \div 1000) % 60
MsFromTime(tv) == TimeWithinDay(tv) % 1000
WeekDay(tv) == (Day(tv) + 4) % 7

\* Year, month (1..12) and day of month of a day number (proleptic Gregorian),
\* computed era by era: day of era, year of era, day of year, month index.
YearOfEra(doe) == (doe - doe \div 1460 + doe \div 36524 - doe \div 146096) \div 365

DayOfYear(doe, yoe) == doe - (365 * yoe + yoe \div 4 - yoe \div 100)

MonthIndex(doy) == (5 * doy + 2) \div 153

CivilFromMonthIndex(era, yoe, doy, mp) ==
  [year |-> yoe + era * 400 + (IF mp < 10 THEN 0 ELSE 1),
   month |-> IF mp < 10 THEN mp + 3 ELSE mp - 9,
   date |-> doy - (153 * mp + 2) \div 5 + 1]

CivilFromDayOfYear(era, yoe, doy) == CivilFromMonthIndex(era, yoe, doy, MonthIndex(doy))

CivilFromYearOfEra(era, doe, yoe) == CivilFromDayOfYear(era, yoe, DayOfYear(doe, yoe))

CivilFromEra(z, era) == CivilFromYearOfEra(era, z - era * 146097, YearOfEra(z - era * 146097))

CivilFromDays(days) == CivilFromEra(days + 719468, (days + 719468) \div 146097)

ISOChars(c, tv) ==
  ZeroPad(c.year, 4) \o <<"-">> \o ZeroPad(c.month, 2) \o <<"-">>
    \o ZeroPad(c.date, 2) \o <<"T">> \o ZeroPad(HourFromTime(tv), 2) \o <<":">>
    \o ZeroPad(MinFromTime(tv), 2) \o <<":">> \o ZeroPad(SecFromTime(tv), 2)
    \o <<".">> \o ZeroPad(MsFromTime(tv), 3) \o <<"Z">>

\* Date.prototype.toISOString of a valid date (years 0..9999).
ToISOChars(tv) == ISOChars(CivilFromDays(Day(tv)), tv)

DayName(w) ==
  CASE w = 0 -> "Sun" [] w = 1 -> "Mon" [] w = 2 -> "Tue" [] w = 3 -> "Wed"
    [] w = 4 -> "Thu" [] w = 5 -> "Fri" [] w = 6 -> "Sat"

MonthName(m) ==
  CASE m = 1 -> "Jan" [] m = 2 -> "Feb" [] m = 3 -> "Mar" [] m = 4 -> "Apr"
    [] m = 5 -> "May" [] m = 6 -> "Jun" [] m = 7 -> "Jul" [] m = 8 -> "Aug"
    [] m = 9 -> "Sep" [] m = 10 -> "Oct" [] m = 11 -> "Nov" [] m = 12 -> "Dec"

\* The process's time zones the model runs under: minutes east of UTC and the
\* zone's display name.
TimeZones ==
  {[offset |-> 0, name |-> "Coordinated Universal Time"],
   [offset |-> 60, name |-> "Central European Standard Time"]}

\* The GMT+hhmm part of Date.prototype.toString.
OffsetString(sign, abs) ==
  sign \o CharsToString(ZeroPad(abs \div 60, 2)) \o CharsToString(ZeroPad(abs % 60, 2))

LocalDateString(c, local, zone) ==
  DayName(WeekDay(local)) \o " " \o MonthName(c.month) \o " "
    \o CharsToString(ZeroPad(c.date, 2)) \o " "
    \o CharsToString(ZeroPad(c.year, 4)) \o " "
    \o CharsToString(ZeroPad(HourFromTime(local), 2)) \o ":"
    \o CharsToString(ZeroPad(MinFromTime(local), 2)) \o ":"
    \o CharsToString(ZeroPad(SecFromTime(local), 2)) \o " GMT"
    \o (IF zone.offset < 0 THEN OffsetString("-", -zone.offset)
        ELSE OffsetString("+", zone.offset))
    \o " (" \o zone.name \o ")"

LocalTime(tv, zone) == tv + zone.offset * 60 * 1000

\* Date.prototype.toString of a valid date in time zone zone.
DateToString(tv, zone) ==
  LocalDateString(CivilFromDays(Day(LocalTime(tv, zone))), LocalTime(tv, zone), zone)


(***************************************************************************)
(* Objects as ordered property lists.  A row and the primary-key map are   *)
(* plain objects: sequences of <<name, value>> pairs in insertion order.   *)
(***************************************************************************)
HasOwn(obj, name) == \E i \in 1..Len(obj) : obj[i][1] = name

OwnValue(obj, name) == obj[CHOOSE i \in 1..Len(obj) : obj[i][1] = name][2]

\* obj[name]: the own property, else the member inherited from Object.prototype,
\* else undefined.
PropertyGet(obj, name) ==
  IF HasOwn(obj, name) THEN OwnValue(obj, name)
  ELSE IF name \in ObjectPrototypeMembers THEN InheritedMember(name)
  ELSE Undefined

\* obj[name] = value: an existing property keeps its place, a new one goes last.
PropertySet(obj, name, value) ==
  IF HasOwn(obj, name)
  THEN [i \in 1..Len(obj) |-> IF obj[i][1] = name THEN <<name, value>> ELSE obj[i]]
  ELSE Append(obj, <<name, value>>)

\* A key specification: one field name, or an array of field names.
KeyStr(s) == [t |-> "key", name |-> s]
KeyArr(a) == [t |-> "array", items |-> a]

\* !v is false for a non-empty string, an array and a function.
Truthy(v) ==
  CASE v.t = "undefined" -> FALSE
    [] v.t = "null" -> FALSE
    [] v.t = "key" -> v.name # ""
    [] OTHER -> TRUE

\* value == null
IsNullish(value) == value.t \in {"undefined", "null"}

\* The property key a value used as a computed member name converts to.
ToPropertyKey(v) == IF v.t = "key" THEN v.name ELSE FunctionSource(v)

\* String(value) in time zone zone.
ToStringJS(value, zone) ==
  CASE value.t = "undefined" -> Return("undefined")
    [] value.t = "null" -> Return("null")
    [] value.t = "number" -> Return(IntToString(value.num))
    [] value.t = "string" -> Return(CharsToString(value.chars))
    [] value.t = "bigint" -> Return(IntToString(value.big))
    [] value.t = "date" ->
         IF value.valid THEN Return(DateToString(value.tv, zone))
         ELSE Return("Invalid Date")
    [] value.t = "function" -> Return(FunctionSource(value))
    [] value.t = "object" ->
         IF heap[value.ref].proto = "null"
         THEN Throw("TypeError: Cannot convert object to primitive value")
         ELSE Return("[object Object]")

(***************************************************************************)
(* JSON.stringify(record, replacer) of safeStringifyForPK.                 *)
(***************************************************************************)
EscapeChar(c) ==
  CASE c = "\"" -> "\\\""
    [] c = "\\" -> "\\\\"
    [] OTHER -> c

RECURSIVE EscapeChars(_)
EscapeChars(s) ==
  IF s = <<>> THEN "" ELSE EscapeChar(Head(s)) \o EscapeChars(Tail(s))

\* QuoteJSONString
QuoteJSONString(s) == "\"" \o EscapeChars(s) \o "\""

CircularToken == <<"[", "C", "i", "r", "c", "u", "l", "a", "r", "]">>

\* The value's toJSON method, called before the replacer: a Date has one (an
\* invalid date gives null), and so does the object whose toJSON throws.
ApplyToJSON(value) ==
  CASE value.t = "date" ->
         IF value.valid THEN Return(Str(ToISOChars(value.tv))) ELSE Return(Null)
    [] value.t = "object" /\ heap[value.ref].toJSON = "throws" ->
         Throw("Error: toJSON")
    [] OTHER -> Return(value)

\* The replacer of safeStringifyForPK: the value it returns and the seen set after.
Replacer(value, seen) ==
  CASE value.t = "bigint" ->
         [kind |-> "return", value |-> Str(IntToChars(value.big)), seen |-> seen]
    [] value.t = "date" ->
         IF value.valid
         THEN [kind |-> "return", value |-> Str(ToISOChars(value.tv)), seen |-> seen]
         ELSE [kind |-> "throw", value |-> Undefined, seen |-> seen]
    [] value.t = "object" ->
         IF value.ref \in seen
         THEN [kind |-> "return", value |-> Str(CircularToken), seen |-> seen]
         ELSE [kind |-> "return", value |-> value, seen |-> seen \cup {value.ref}]
    [] OTHER -> [kind |-> "return", value |-> value, seen |-> seen]

\* SerializeJSONProperty on the value holder[key], in the steps of the standard:
\* toJSON, the replacer, then the value by its type.  st is "text" (text holds
\* the JSON), "undefined" (the property is left out) or "throw".
Thrown(seen) == [st |-> "throw", text |-> "", seen |-> seen]

\* SerializeJSONObject of an object with the one property p.
WrapObject(inner) ==
  CASE inner.st = "throw" -> inner
    [] inner.st = "undefined" -> [st |-> "text", text |-> "{}", seen |-> inner.seen]
    [] OTHER -> [st |-> "text", text |-> "{\"p\":" \o inner.text \o "}", seen |-> inner.seen]

RECURSIVE SerializeJSONProperty(_, _)
RECURSIVE SerializeValue(_, _)
RECURSIVE AfterReplacer(_)
RECURSIVE AfterToJSON(_, _)

SerializeValue(v, seen) ==
  CASE v.t = "null" -> [st |-> "text", text |-> "null", seen |-> seen]
    [] v.t = "string" -> [st |-> "text", text |-> QuoteJSONString(v.chars), seen |-> seen]
    [] v.t = "number" -> [st |-> "text", text |-> IntToString(v.num), seen |-> seen]
    [] v.t = "bigint" -> Thrown(seen)
    [] v.t = "object" -> WrapObject(SerializeJSONProperty(heap[v.ref].p, seen))
    [] OTHER -> [st |-> "undefined", text |-> "", seen |-> seen]

AfterReplacer(r) ==
  IF r.kind = "throw" THEN Thrown(r.seen) ELSE SerializeValue(r.value, r.seen)

AfterToJSON(j, seen) ==
  IF j.kind = "throw" THEN Thrown(seen) ELSE AfterReplacer(Replacer(j.value, seen))

SerializeJSONProperty(held, seen) == AfterToJSON(ApplyToJSON(held), seen)

\* SerializeJSONObject over the properties obj[i..], in property order: the
\* members joined by commas.
JoinMember(obj, i, first, m, rest) ==
  IF rest.st = "throw" THEN rest
  ELSE IF m.st = "undefined" THEN rest
  ELSE [st |-> "text",
        text |-> (IF first THEN "" ELSE ",") \o "\"" \o obj[i][1] \o "\":"
                   \o m.text \o rest.text,
        seen |-> rest.seen]

RECURSIVE SerializeMembers(_, _, _, _)
RECURSIVE SerializeRest(_, _, _, _)

SerializeRest(obj, i, first, m) ==
  IF m.st = "throw" THEN m
  ELSE JoinMember(obj, i, first, m,
                  SerializeMembers(obj, i + 1, m.seen, first /\ m.st = "undefined"))

SerializeMembers(obj, i, seen, first) ==
  IF i > Len(obj) THEN [st |-> "text", text |-> "", seen |-> seen]
  ELSE SerializeRest(obj, i, first, SerializeJSONProperty(obj[i][2], seen))

\* JSON.stringify(record, replacer): the replacer first sees the record itself
\* (key ""), a fresh object no value refers to.
JSONStringify(obj) == SerializeMembers(obj, 1, {"resolved"}, TRUE)

\* The field names of the model in the order Array.prototype.sort gives them.
SortedFieldNames == <<"a", "b", "c", "code", "id", "name">>

\* Object.keys(obj).sort()
SortedKeys(obj) == SelectSeq(SortedFieldNames, LAMBDA n : HasOwn(obj, n))

RECURSIVE Join(_, _)
Join(names, sep) ==
  IF names = <<>> THEN ""
  ELSE IF Len(names) = 1 THEN names[1]
  ELSE names[1] \o sep \o Join(Tail(names), sep)

\* The catch clause of safeStringifyForPK.
FallbackKey(keys) ==
  "composite_key_" \o Join(keys, "_") \o "_" \o IntToString(Len(keys))

\* try { return JSON.stringify(...) } catch { return fallback }
TryCatch(obj, r) ==
  IF r.st = "throw" THEN FallbackKey(SortedKeys(obj)) ELSE "{" \o r.text \o "}"

\* safeStringifyForPK(record)
safeStringifyForPK(obj) == TryCatch(obj, JSONStringify(obj))

\* The loop of extractConfiguredPrimaryKey over keys[i..]: the resolved object,
\* or "missing" at the first field that is null or undefined on the record.
RECURSIVE ResolveFields(_, _, _, _)
RECURSIVE ResolveField(_, _, _, _, _)

ResolveField(rec, keys, i, resolved, value) ==
  IF IsNullish(value) THEN [missing |-> TRUE, resolved |-> resolved]
  ELSE ResolveFields(rec, keys, i + 1, PropertySet(resolved, keys[i], value))

ResolveFields(rec, keys, i, resolved) ==
  IF i > Len(keys) THEN [missing |-> FALSE, resolved |-> resolved]
  ELSE ResolveField(rec, keys, i, resolved, PropertyGet(rec, keys[i]))

\* String(resolved[keys[0]]) as extractConfiguredPrimaryKey returns it.
StringOfSingle(s) ==
  IF s.kind = "throw" THEN s ELSE Return([t |-> "text", text |-> s.value])

\* extractConfiguredPrimaryKey after its loop.
StringifyResolved(keys, r) ==
  IF r.missing THEN Return(Null)
  ELSE IF Len(keys) = 1
  THEN StringOfSingle(ToStringJS(PropertyGet(r.resolved, keys[1]), tz))
  ELSE Return([t |-> "text", text |-> safeStringifyForPK(r.resolved)])

\* Array.isArray(key) ? key : [key]
KeysOf(key) == IF key.t = "array" THEN key.items ELSE <<ToPropertyKey(key)>>

ExtractWithKeys(rec, keys) == StringifyResolved(keys, ResolveFields(rec, keys, 1, <<>>))

\* extractConfiguredPrimaryKey(record, key): Return(Null), Return of the identity
\* text, or the exception String() threw.
extractConfiguredPrimaryKey(rec, key) == ExtractWithKeys(rec, KeysOf(key))

ConfigError == "primaryKeyMap missing key for table"
MissingError == "primaryKeyMap fields missing in record for table"

\* if (configured == null) throw ...; return configured
CheckConfigured(configured) ==
  IF configured.kind = "throw" THEN configured
  ELSE IF configured.value.t = "null" THEN Throw(MissingError)
  ELSE Return(configured.value.text)

\* if (!configuredKey) throw ...; extractConfiguredPrimaryKey(record, configuredKey)
WithConfiguredKey(rec, configuredKey) ==
  IF ~Truthy(configuredKey) THEN Throw(ConfigError)
  ELSE CheckConfigured(extractConfiguredPrimaryKey(rec, configuredKey))

\* extractPrimaryKey(record, tableName, primaryKeyMap): Return(identity) or Throw.
extractPrimaryKey(rec, table, map) == WithConfiguredKey(rec, PropertyGet(map, table))

\* records.map(...) over recs[i..]: the first exception ends the map.
RECURSIVE MapPrimaryKeys(_, _, _, _, _)
RECURSIVE MapNext(_, _, _, _, _, _)

\* A map that leaves out the rows whose identity cannot be resolved.
MapSkipsFailure(recs, table, map, i, acc, r) ==
  IF r.kind = "throw" THEN MapPrimaryKeys(recs, table, map, i + 1, acc)
  ELSE MapPrimaryKeys(recs, table, map, i + 1, Append(acc, r.value))

MapNext(recs, table, map, i, acc, r) ==
  IF r.kind = "throw" THEN r
  ELSE MapPrimaryKeys(recs, table, map, i + 1, Append(acc, r.value))

MapPrimaryKeys(recs, table, map, i, acc) ==
  IF i > Len(recs) THEN Return(acc)
  ELSE MapNext(recs, table, map, i, acc, extractPrimaryKey(recs[i], table, map))

\* extractPrimaryKeys(records, tableName, primaryKeyMap)
extractPrimaryKeys(recs, table, map) == MapPrimaryKeys(recs, table, map, 1, <<>>)

(***************************************************************************)
(* The setup SQL of the audit table: assertSafeIdentifier,                 *)
(* buildCreateAuditTableSQL, createAuditTableSQLFor.  A table name is a    *)
(* sequence of characters; the script is the sequence of its statements.   *)
(***************************************************************************)
LowerCase ==
  {"a", "b", "c", "d", "e", "f", "g", "h", "i", "j", "k", "l", "m",
   "n", "o", "p", "q", "r", "s", "t", "u", "v", "w", "x", "y", "z"}

UpperCase ==
  {"A", "B", "C", "D", "E", "F", "G", "H", "I", "J", "K", "L", "M",
   "N", "O", "P", "Q", "R", "S", "T", "U", "V", "W", "X", "Y", "Z"}

Digits == {"0", "1", "2", "3", "4", "5", "6", "7", "8", "9"}

\* [a-zA-Z_]
HeadClass == LowerCase \cup UpperCase \cup {"_"}

\* [a-zA-Z0-9_]
TailClass == LowerCase \cup UpperCase \cup Digits \cup {"_"}

\* [a-zA-Z0-9_]*$ from position i: every character to the end of the input.
RECURSIVE MatchTail(_, _)
MatchTail(name, i) ==
  IF i > Len(name) THEN TRUE
  ELSE IF name[i] \in TailClass THEN MatchTail(name, i + 1)
  ELSE FALSE

\* The pattern without its anchors: some character of the name starts a match.
TestUnanchored(name) == \E i \in 1..Len(name) : name[i] \in HeadClass

\* /^[a-zA-Z_][a-zA-Z0-9_]*$/.test(name)
TestIdentifier(name) ==
  Len(name) >= 1 /\ name[1] \in HeadClass /\ MatchTail(name, 2)

InvalidTableName == "Invalid table name"

\* assertSafeIdentifier(name): returns nothing or throws.
assertSafeIdentifier(name) ==
  IF ~TestIdentifier(name) THEN Throw(InvalidTableName) ELSE Return(Undefined)

DEFAULT_TABLE_NAME == <<"a", "u", "d", "i", "t", "_", "l", "o", "g", "s">>

\* pg_advisory_xact_lock(913742, 540129)
AdvisoryLockKey == <<913742, 540129>>

\* CREATE INDEX IF NOT EXISTS <index> ON <t>(<columns>) [WHERE <predicate>]
CreateIndex(index, t, columns, predicate) ==
  [op |-> "CREATE INDEX IF NOT EXISTS", name |-> index, table |-> t,
   columns |-> columns, where |-> predicate]

\* The statements that create and upgrade the schema objects of table t.
SchemaStatements(t) ==
  << [op |-> "CREATE SEQUENCE IF NOT EXISTS", name |-> t \o "_id_seq"],
     [op |-> "CREATE TABLE IF NOT EXISTS", name |-> t,
      idDefault |-> t \o "_id_seq", actionWidth |-> 255],
     [op |-> "ALTER SEQUENCE OWNED BY", name |-> t \o "_id_seq", table |-> t],
     [op |-> "DROP CONSTRAINT IF EXISTS", table |-> t,
      constraint |-> "audit_logs_action_check"],
     [op |-> "ALTER COLUMN action TYPE", table |-> t, actionWidth |-> 255],
     CreateIndex("idx_audit_logs_table_record", t, <<"table_name", "record_id">>, "none"),
     CreateIndex("idx_audit_logs_user_id", t, <<"user_id">>, "user_id IS NOT NULL"),
     CreateIndex("idx_audit_logs_created_at", t, <<"created_at DESC">>, "none"),
     CreateIndex("idx_audit_logs_action", t, <<"action">>, "none"),
     CreateIndex("idx_audit_logs_table_created", t, <<"table_name", "created_at DESC">>, "none"),
     [op |-> "COMMENT ON TABLE", table |-> t] >>

\* A script that takes no advisory lock.
StatementsWithoutLock(t) == SchemaStatements(t)

\* The statements of the template, ${tableName} replaced by the text t.
Statements(t) ==
  << [op |-> "SELECT pg_advisory_xact_lock", key |-> AdvisoryLockKey] >>
    \o SchemaStatements(t)

\* The template literal once the name has passed, or the exception.
Interpolate(name, checked) ==
  IF checked.kind = "throw" THEN checked
  ELSE Return(Statements(CharsToString(name)))

\* buildCreateAuditTableSQL(tableName)
buildCreateAuditTableSQL(name) ==
  Interpolate(name, assertSafeIdentifier(name))

\* createAuditTableSQLFor(tableName = DEFAULT_TABLE_NAME)
createAuditTableSQLFor(arg) ==
  buildCreateAuditTableSQL(IF arg = Undefined THEN DEFAULT_TABLE_NAME ELSE arg.chars)

(***************************************************************************)
(* The audited table, its callers and the audit engine.                    *)
(***************************************************************************)
Callers == {"c1", "c2"}
RowIds == {1, 2}
MaxStmts == 2

\* The statements of the model: INSERT INTO users (id, name) VALUES (i, 'A'),
\* UPDATE users SET name = 'B' WHERE id IN target, DELETE FROM users WHERE id IN target.
NameWritten(action) == IF action = "UPDATE" THEN "B" ELSE "A"
AuditedTable == "users"

None == [none |-> TRUE]
Some(x) == [some |-> x]
IsSome(o) == "some" \in DOMAIN o

NoRow == <<>>

\* Column code is nullable: row 2 holds NULL in it.
Code(i) == IF i = 1 THEN Str(<<"k">>) ELSE Null

Row(i, n) == << <<"id", Num(i)>>, <<"code", Code(i)>>, <<"name", Str(<<n>>)>> >>

RowNumber(row) == OwnValue(row, "id").num

NoStmt == [action |-> "none", target |-> {}, name |-> "A", mode |-> "auto", txn |-> 0]

StorageError == "StorageError"

\* The table as caller c's statements see it: the committed rows, and the rows
\* its own open transaction has written.
View(c) == [i \in RowIds |-> IF i \in locked[c] THEN overlay[c][i] ELSE db[i]]

RECURSIVE Ascending(_)
Ascending(S) ==
  IF S = {} THEN <<>>
  ELSE LET m == CHOOSE x \in S : \A y \in S : x <= y
       IN <<m>> \o Ascending(S \ {m})

\* The row numbers of the statement's predicate that hold a row, in table order.
Hit(view, target) == Ascending({i \in target : view[i] # NoRow})

\* SELECT * FROM table WHERE <predicate>
Matching(view, target) ==
  LET ids == Hit(view, target) IN [k \in 1..Len(ids) |-> view[ids[k]]]

\* A proxy that leaves the statement as the caller wrote it.
ReturningAsWritten(operation, hasReturning) == hasReturning

\* createExecutionProxy: .returning() is injected when the caller left it out.
AutoInjectReturning(operation, hasReturning) ==
  IF operation \in {"INSERT", "UPDATE", "DELETE"} /\ ~hasReturning
  THEN TRUE
  ELSE hasReturning

\* An engine that never reads the before-state.
NeverReadsBefore(cfg, s) == FALSE

\* An engine that reads the before-state of every UPDATE.
ReadsBeforeEveryUpdate(cfg, s) == s.action = "UPDATE"

\* Whether the explicit before-state read runs: UPDATE with captureOldValues.
\* DELETE never reads: the removed captureDeletedValues option is ignored.
NeedsBefore(cfg, s) == s.action = "UPDATE" /\ cfg.captureOldValues

\* The diff engine: the new row's changed or added fields in its key order,
\* then the fields only the old row has.
Diff(old, new) ==
  LET changed == SelectSeq([k \in 1..Len(new) |-> new[k][1]],
                           LAMBDA f : ~HasOwn(old, f) \/ OwnValue(old, f) # OwnValue(new, f))
      gone == SelectSeq([k \in 1..Len(old) |-> old[k][1]], LAMBDA f : ~HasOwn(new, f))
  IN changed \o gone

\* The records of a batch whose identities ids were resolved.
RecordsOf(action, table, txn, bef, aft, nb, na, ids) ==
  IF ids.kind = "throw" THEN ids
  ELSE Return([i \in 1..Len(ids.value) |->
         [action |-> action,
          tableName |-> table,
          recordId |-> ids.value[i],
          oldValues |-> IF i <= nb THEN Some(bef.some[i]) ELSE None,
          newValues |-> IF i <= na THEN Some(aft.some[i]) ELSE None,
          changedFields |-> IF action = "UPDATE" /\ i <= nb /\ i <= na
                            THEN Some(Diff(bef.some[i], aft.some[i]))
                            ELSE None,
          transactionId |-> txn,
          idx |-> i]])

\* The rows the identities are resolved from: after[i] ?? before[i].
IdentityRows(bef, aft, nb, na) ==
  [i \in 1..(IF nb > na THEN nb ELSE na) |-> IF i <= na THEN aft.some[i] ELSE bef.some[i]]

BuildSized(action, table, map, txn, bef, aft, nb, na) ==
  RecordsOf(action, table, txn, bef, aft, nb, na,
            extractPrimaryKeys(IdentityRows(bef, aft, nb, na), table, map))

\* The record builder: one record per row of the longer of the two snapshots,
\* identified by after[i] ?? before[i]; an identity that cannot be resolved
\* throws and nothing is built.
BuildRecords(action, table, map, txn, bef, aft) ==
  BuildSized(action, table, map, txn, bef, aft,
             IF IsSome(bef) THEN Len(bef.some) ELSE 0,
             IF IsSome(aft) THEN Len(aft.some) ELSE 0)

\* createAuditLogs as it was with captureDeletedValues off: a DELETE is not logged.
AuditBatchSkipsDelete(cfg, s, bef, rows, map) ==
  IF s.action = "DELETE" THEN Return(<<>>)
  ELSE BuildRecords(s.action, AuditedTable, map, s.txn,
                    IF s.action = "UPDATE" THEN bef ELSE None, Some(rows))

\* createAuditLogs: the snapshots each operation hands to the builder.
AuditBatch(cfg, s, bef, rows, map) ==
  BuildRecords(s.action, AuditedTable, map, s.txn,
               CASE s.action = "INSERT" -> None
                 [] s.action = "UPDATE" -> bef
                 [] s.action = "DELETE" -> Some(rows),
               CASE s.action = "DELETE" -> None
                 [] OTHER -> Some(rows))

Range(f) == {f[i] : i \in DOMAIN f}

Reset(c) ==
  /\ pc' = [pc EXCEPT ![c] = "idle"]
  /\ stmt' = [stmt EXCEPT ![c] = NoStmt]
  /\ before' = [before EXCEPT ![c] = None]
  /\ returned' = [returned EXCEPT ![c] = <<>>]
  /\ built' = [built EXCEPT ![c] = <<>>]
  /\ error' = [error EXCEPT ![c] = "none"]
  /\ queries' = [queries EXCEPT ![c] = <<>>]
  /\ pre' = [pre EXCEPT ![c] = <<>>]
  /\ locked' = [locked EXCEPT ![c] = {}]
  /\ overlay' = [overlay EXCEPT ![c] = [i \in RowIds |-> NoRow]]
  /\ txAudit' = [txAudit EXCEPT ![c] = {}]

pkVars == <<tz, record, record2, tableName, primaryKeyMap, result, result2>>

setupVars == <<ddlName, ddlResult, setupName, setupSql, setupPc, setupPos,
               catalog, work, advisoryLock, runs>>

\* A caller issues a mutating statement through the audited db handle, in
\* autocommit ("auto") or inside a transaction it opened ("tx").
Issue(c) ==
  /\ pc[c] = "idle"
  /\ issued < MaxStmts
  /\ \E a \in {"INSERT", "UPDATE", "DELETE"}, target \in SUBSET RowIds,
        mode \in {"auto", "tx"} :
       /\ a = "INSERT" => Cardinality(target) = 1
       /\ stmt' = [stmt EXCEPT ![c] =
            [action |-> a, target |-> target, name |-> NameWritten(a),
             mode |-> mode, txn |-> issued + 1]]
  /\ issued' = issued + 1
  /\ pc' = [pc EXCEPT ![c] = "intercepted"]
  /\ UNCHANGED <<pkVars, setupVars, config, db, audit, before, returned, built, error,
                 queries, locked, overlay, txAudit, pre, committed, rolledBack>>

\* The explicit read of the before-state.
FetchBefore(c) ==
  /\ pc[c] = "intercepted"
  /\ NeedsBefore(config, stmt[c])
  /\ before' = [before EXCEPT ![c] = Some(Matching(View(c), stmt[c].target))]
  /\ queries' = [queries EXCEPT ![c] = Append(@, "SELECT")]
  /\ pc' = [pc EXCEPT ![c] = "fetched"]
  /\ UNCHANGED <<pkVars, setupVars, config, db, audit, stmt, returned, built, error,
                 locked, overlay, txAudit, issued, pre, committed, rolledBack>>

\* The read fails: the error propagates and the mutation is not executed.
FetchBeforeFails(c) ==
  /\ pc[c] = "intercepted"
  /\ NeedsBefore(config, stmt[c])
  /\ queries' = [queries EXCEPT ![c] = Append(@, "SELECT")]
  /\ error' = [error EXCEPT ![c] = StorageError]
  /\ pc' = [pc EXCEPT ![c] = "failed"]
  /\ UNCHANGED <<pkVars, setupVars, config, db, audit, stmt, before, returned, built,
                 locked, overlay, txAudit, issued, pre, committed, rolledBack>>

\* The store executes the mutating statement.  A row another open transaction
\* has written is locked: the statement waits.  INSERT of an existing row number
\* violates the primary key and fails.
ExecuteMutation(c) ==
  LET s == stmt[c]
      v == View(c)
      hit == Hit(v, s.target)
      oldRows == [k \in 1..Len(hit) |-> v[hit[k]]]
      new == CHOOSE i \in s.target : TRUE
      conflict == s.action = "INSERT" /\ v[new] # NoRow
      touched == IF s.action = "INSERT" THEN {new} ELSE Range(hit)
      after == [i \in RowIds |->
                 IF i \notin touched THEN v[i]
                 ELSE CASE s.action = "INSERT" -> Row(i, s.name)
                        [] s.action = "UPDATE" -> PropertySet(v[i], "name", Str(<<s.name>>))
                        [] s.action = "DELETE" -> NoRow]
      ids == Ascending(touched)
      rows == [k \in 1..Len(ids) |->
                 IF s.action = "DELETE" THEN v[ids[k]] ELSE after[ids[k]]]
  IN /\ \/ pc[c] = "intercepted" /\ ~NeedsBefore(config, s)
        \/ pc[c] = "fetched"
     /\ \A d \in Callers \ {c} : locked[d] \cap s.target = {}
     /\ \E hasReturning \in BOOLEAN :
          LET returning == AutoInjectReturning(s.action, hasReturning)
          IN /\ queries' = [queries EXCEPT ![c] =
                  Append(@, IF returning /\ ~hasReturning
                            THEN s.action \o " RETURNING (injected)"
                            ELSE IF returning THEN s.action \o " RETURNING"
                            ELSE s.action)]
             /\ returned' = [returned EXCEPT ![c] =
                  IF conflict \/ ~returning THEN <<>> ELSE rows]
     /\ IF conflict
        THEN /\ error' = [error EXCEPT ![c] = StorageError]
             /\ pc' = [pc EXCEPT ![c] = "failed"]
             /\ UNCHANGED <<db, locked, overlay, pre, committed>>
        ELSE /\ pc' = [pc EXCEPT ![c] = "mutated"]
             /\ pre' = [pre EXCEPT ![c] = IF s.action = "INSERT" THEN <<>> ELSE oldRows]
             /\ error' = error
             /\ IF s.mode = "auto"
                THEN /\ db' = after
                     /\ committed' = committed \cup
                          {[txn |-> s.txn, row |-> i, action |-> s.action,
                             mode |-> "auto", error |-> "none"] : i \in touched}
                     /\ UNCHANGED <<locked, overlay>>
                ELSE /\ locked' = [locked EXCEPT ![c] = @ \cup touched]
                     /\ overlay' = [overlay EXCEPT ![c] =
                          [i \in RowIds |-> IF i \in touched THEN after[i] ELSE @[i]]]
                     /\ UNCHANGED <<db, committed>>
     /\ UNCHANGED <<pkVars, setupVars, config, audit, stmt, before, built, txAudit, issued,
                    rolledBack>>

\* A writer that inserts on a connection of its own, outside the caller's
\* transaction.
LogBatchOutsideTransaction(c, batch) ==
  IF batch.kind = "throw"
  THEN /\ error' = [error EXCEPT ![c] = batch.error]
       /\ pc' = [pc EXCEPT ![c] = "failed"]
       /\ UNCHANGED <<built, queries, audit, txAudit>>
  ELSE /\ built' = [built EXCEPT ![c] = batch.value]
       /\ pc' = [pc EXCEPT ![c] = "logged"]
       /\ error' = error
       /\ IF Len(batch.value) = 0
          THEN UNCHANGED <<queries, audit, txAudit>>
          ELSE /\ queries' = [queries EXCEPT ![c] = Append(@, "INSERT audit")]
               /\ audit' = audit \cup Range(batch.value)
               /\ UNCHANGED txAudit

\* createAuditLogs once the batch is built (or the builder threw).
LogBatch(c, batch) ==
  IF batch.kind = "throw"
  THEN /\ error' = [error EXCEPT ![c] = batch.error]
       /\ pc' = [pc EXCEPT ![c] = "failed"]
       /\ UNCHANGED <<built, queries, audit, txAudit>>
  ELSE /\ built' = [built EXCEPT ![c] = batch.value]
       /\ pc' = [pc EXCEPT ![c] = "logged"]
       /\ error' = error
       /\ IF Len(batch.value) = 0
          THEN UNCHANGED <<queries, audit, txAudit>>
          ELSE /\ queries' = [queries EXCEPT ![c] = Append(@, "INSERT audit")]
               /\ IF stmt[c].mode = "auto"
                  THEN /\ audit' = audit \cup Range(batch.value)
                       /\ UNCHANGED txAudit
                  ELSE /\ txAudit' = [txAudit EXCEPT ![c] = Range(batch.value)]
                       /\ UNCHANGED audit

\* createAuditLogs: build the batch and insert it; an empty batch is skipped and
\* an identity that cannot be resolved is thrown to the caller.
CreateAuditLogs(c) ==
  /\ pc[c] = "mutated"
  /\ LogBatch(c, AuditBatch(config, stmt[c], before[c], returned[c], primaryKeyMap))
  /\ UNCHANGED <<pkVars, setupVars, config, db, stmt, before, returned, locked, overlay,
                 issued, pre, committed, rolledBack>>

\* The insert of a built, non-empty batch fails.
FailBatch(c, batch) ==
  /\ batch.kind = "return"
  /\ Len(batch.value) > 0
  /\ built' = [built EXCEPT ![c] = batch.value]

\* The insert into the audit table fails: the StorageError propagates.
CreateAuditLogsWriteFails(c) ==
  /\ pc[c] = "mutated"
  /\ FailBatch(c, AuditBatch(config, stmt[c], before[c], returned[c], primaryKeyMap))
  /\ queries' = [queries EXCEPT ![c] = Append(@, "INSERT audit")]
  /\ error' = [error EXCEPT ![c] = StorageError]
  /\ pc' = [pc EXCEPT ![c] = "failed"]
  /\ UNCHANGED <<pkVars, setupVars, config, db, audit, stmt, before, returned, locked,
                 overlay, txAudit, issued, pre, committed, rolledBack>>

\* An autocommit statement is over: its result or error is with the caller.
Finish(c) ==
  /\ pc[c] \in {"logged", "failed"}
  /\ stmt[c].mode = "auto"
  /\ Reset(c)
  /\ UNCHANGED <<pkVars, setupVars, config, db, audit, issued, committed, rolledBack>>

\* The caller commits its transaction.  After a failed statement the store has
\* aborted the transaction and COMMIT rolls it back; an error thrown by the
\* engine itself (an unresolvable identity) leaves the transaction open, and a
\* caller that caught it can still commit.
Commit(c) ==
  /\ pc[c] \in {"logged", "failed"}
  /\ stmt[c].mode = "tx"
  /\ IF error[c] = StorageError
     THEN /\ rolledBack' = rolledBack \cup {stmt[c].txn}
          /\ UNCHANGED <<db, audit, committed>>
     ELSE /\ db' = View(c)
          /\ audit' = audit \cup txAudit[c]
          /\ committed' = committed \cup
               {[txn |-> stmt[c].txn, row |-> i, action |-> stmt[c].action,
                 mode |-> "tx", error |-> error[c]] : i \in locked[c]}
          /\ UNCHANGED rolledBack
  /\ Reset(c)
  /\ UNCHANGED <<pkVars, setupVars, config, issued>>

\* The caller rolls its transaction back.
Rollback(c) ==
  /\ pc[c] \in {"logged", "failed"}
  /\ stmt[c].mode = "tx"
  /\ rolledBack' = rolledBack \cup {stmt[c].txn}
  /\ Reset(c)
  /\ UNCHANGED <<pkVars, setupVars, config, db, audit, issued, committed>>

(***************************************************************************)
(* The database the setup script runs on.  Tables, sequences and indexes   *)
(* share one namespace; a script runs as one transaction, which sees the   *)
(* committed catalog and what it has written itself.                       *)
(***************************************************************************)
Exists(V, n) == \E o \in V : o.name = n
IsTable(V, n) == \E o \in V : o.name = n /\ o.kind = "table"
IsSequence(V, n) == \E o \in V : o.name = n /\ o.kind = "sequence"
Relation(V, n) == CHOOSE o \in V : o.name = n

\* The object o written over the one of its name.
Put(W, o) == {w \in W : w.name # o.name} \cup {o}

\* The catalog as caller c's transaction sees it.
SchemaView(c) == work[c] \cup {o \in catalog : ~Exists(work[c], o.name)}

Done(W) == [ok |-> TRUE, work |-> W]
Failed(W) == [ok |-> FALSE, work |-> W]

CreateOps ==
  {"CREATE SEQUENCE IF NOT EXISTS", "CREATE TABLE IF NOT EXISTS", "CREATE INDEX IF NOT EXISTS"}

\* What statement st does to the objects W the transaction has written, V being
\* its view of the catalog: a statement on a relation that does not exist fails.
Apply(W, V, st) ==
  CASE st.op = "SELECT pg_advisory_xact_lock" -> Done(W)
    [] st.op = "CREATE SEQUENCE IF NOT EXISTS" ->
         IF Exists(V, st.name) THEN Done(W)
         ELSE Done(Put(W, [kind |-> "sequence", name |-> st.name, ownedBy |-> "none"]))
    [] st.op = "CREATE TABLE IF NOT EXISTS" ->
         IF Exists(V, st.name) THEN Done(W)
         ELSE IF ~IsSequence(V, st.idDefault) THEN Failed(W)
         ELSE Done(Put(W, [kind |-> "table", name |-> st.name,
                           actionWidth |-> st.actionWidth, constraints |-> {},
                           comment |-> FALSE]))
    [] st.op = "ALTER SEQUENCE OWNED BY" ->
         IF IsSequence(V, st.name) /\ IsTable(V, st.table)
         THEN Done(Put(W, [Relation(V, st.name) EXCEPT !.ownedBy = st.table]))
         ELSE Failed(W)
    [] st.op = "DROP CONSTRAINT IF EXISTS" ->
         IF IsTable(V, st.table)
         THEN Done(Put(W, [Relation(V, st.table) EXCEPT !.constraints = @ \ {st.constraint}]))
         ELSE Failed(W)
    [] st.op = "ALTER COLUMN action TYPE" ->
         IF IsTable(V, st.table)
         THEN Done(Put(W, [Relation(V, st.table) EXCEPT !.actionWidth = st.actionWidth]))
         ELSE Failed(W)
    [] st.op = "CREATE INDEX IF NOT EXISTS" ->
         IF Exists(V, st.name) THEN Done(W)
         ELSE IF ~IsTable(V, st.table) THEN Failed(W)
         ELSE Done(Put(W, [kind |-> "index", name |-> st.name, table |-> st.table,
                           columns |-> st.columns, where |-> st.where]))
    [] st.op = "COMMENT ON TABLE" ->
         IF IsTable(V, st.table)
         THEN Done(Put(W, [Relation(V, st.table) EXCEPT !.comment = TRUE]))
         ELSE Failed(W)

\* The relation the statement creates or alters ("none": the lock statement).
Target(st) ==
  CASE st.op = "SELECT pg_advisory_xact_lock" -> "none"
    [] st.op \in CreateOps \cup {"ALTER SEQUENCE OWNED BY"} -> st.name
    [] OTHER -> st.table

\* Another open transaction has written the relation named n.
WrittenByOther(c, n) == \E d \in Callers \ {c} : Exists(work[d], n)

\* The statement creates a relation another open transaction has created too.
\* The unique index of the catalog lets only one of them through: the later one
\* gets a duplicate-key error, which the model raises at once.
Collides(c, st) ==
  st.op \in CreateOps /\ ~Exists(SchemaView(c), st.name) /\ WrittenByOther(c, st.name)

\* The statement waits: for the advisory lock, or for the lock another open
\* transaction holds on the relation it alters.
Waits(c, st) ==
  IF st.op = "SELECT pg_advisory_xact_lock" THEN advisoryLock \notin {"free", c}
  ELSE st.op \notin CreateOps /\ WrittenByOther(c, Target(st))

\* A table of an earlier version: a narrower action column under a constraint
\* on the allowed actions.
LegacyCatalog ==
  {[kind |-> "sequence", name |-> "audit_logs_id_seq", ownedBy |-> "audit_logs"],
   [kind |-> "table", name |-> "audit_logs", actionWidth |-> 20,
    constraints |-> {"audit_logs_action_check"}, comment |-> FALSE]}

\* No setup script is running, and the database holds no relation.
DatabaseIdle ==
  /\ setupName = [c \in Callers |-> Undefined]
  /\ setupSql = [c \in Callers |-> <<>>]
  /\ setupPc = [c \in Callers |-> "idle"]
  /\ setupPos = [c \in Callers |-> 1]
  /\ catalog = {}
  /\ work = [c \in Callers |-> {}]
  /\ advisoryLock = "free"
  /\ runs = 0

\* The setup SQL has not been asked for, and no script is running.
SetupIdle ==
  /\ ddlName = Undefined
  /\ ddlResult = NotCalled
  /\ DatabaseIdle

\* No statement has been issued: the table holds its rows, the audit table none.
EngineIdle ==
  /\ db = [i \in RowIds |-> Row(i, "A")]
  /\ audit = {}
  /\ pc = [c \in Callers |-> "idle"]
  /\ stmt = [c \in Callers |-> NoStmt]
  /\ before = [c \in Callers |-> None]
  /\ returned = [c \in Callers |-> <<>>]
  /\ built = [c \in Callers |-> <<>>]
  /\ error = [c \in Callers |-> "none"]
  /\ queries = [c \in Callers |-> <<>>]
  /\ locked = [c \in Callers |-> {}]
  /\ overlay = [c \in Callers |-> [i \in RowIds |-> NoRow]]
  /\ txAudit = [c \in Callers |-> {}]
  /\ issued = 0
  /\ pre = [c \in Callers |-> <<>>]
  /\ committed = {}
  /\ rolledBack = {}

\* The state after createAuditLogger(db, config): the primary key of users is
\* its id column or its nullable code column.
Init ==
  /\ tz = [offset |-> 0, name |-> "Coordinated Universal Time"]
  /\ record = <<>>
  /\ record2 = <<>>
  /\ tableName = AuditedTable
  /\ primaryKeyMap \in {<< <<AuditedTable, KeyStr("id")>> >>,
                        << <<AuditedTable, KeyStr("code")>> >>}
  /\ result = NotCalled
  /\ result2 = NotCalled
  /\ config \in [captureOldValues : BOOLEAN]
  /\ EngineIdle
  /\ SetupIdle

engineVars == <<config, db, audit, pc, stmt, before, returned, built, error,
                queries, locked, overlay, txAudit, issued, pre, committed, rolledBack>>

vars == <<pkVars, engineVars, setupVars>>

Next ==
  \E c \in Callers :
    \/ Issue(c)
    \/ FetchBefore(c)
    \/ FetchBeforeFails(c)
    \/ ExecuteMutation(c)
    \/ CreateAuditLogs(c)
    \/ CreateAuditLogsWriteFails(c)
    \/ Finish(c)
    \/ Commit(c)
    \/ Rollback(c)

Spec == Init /\ [][Next]_vars

(***************************************************************************)
(* One call of extractPrimaryKey on a row, a table name and a primary-key  *)
(* map drawn from bounded sets.                                            *)
(***************************************************************************)
Values ==
  {Undefined, Null, Num(1), Str(<<"1">>), Str(<<"x">>), BigIntV(12), DateV(0),
   InvalidDate, Ref("o1"), Ref("o2"), Ref("o3"), Ref("o4"), Ref("o5")}

Rows1(f, V) == {<< <<f, v>> >> : v \in V}
Rows2(f, g, V, W) == {<< <<f, v>>, <<g, w>> >> : v \in V, w \in W}
Rows3(f, g, h, V, W, X) ==
  {<< <<f, v>>, <<g, w>>, <<h, x>> >> : v \in V, w \in W, x \in X}

\* The rows with fields among a and b, in either insertion order.
Records ==
  {<<>>} \cup Rows1("a", Values) \cup Rows1("b", Values)
         \cup Rows2("a", "b", Values, Values) \cup Rows2("b", "a", Values, Values)

TableNames == {"users", "orders", "constructor", "sessions"}

\* users has a single-field key, orders a composite one.
KeyMaps ==
  {<< <<"users", KeyStr("a")>>, <<"orders", KeyArr(<<"a", "b">>)>> >>,
   << <<"orders", KeyArr(<<"b", "a">>)>>, <<"users", KeyStr("b")>> >>}

InitPK ==
  /\ tz \in TimeZones
  /\ record \in Records
  /\ record2 = <<>>
  /\ tableName \in TableNames
  /\ primaryKeyMap \in KeyMaps
  /\ result = NotCalled
  /\ result2 = NotCalled
  /\ config = [captureOldValues |-> FALSE]
  /\ EngineIdle
  /\ SetupIdle

\* result = extractPrimaryKey(record, tableName, primaryKeyMap), or what it threw.
ExtractPrimaryKey ==
  /\ result = NotCalled
  /\ result' = extractPrimaryKey(record, tableName, primaryKeyMap)
  /\ UNCHANGED <<tz, record, record2, tableName, primaryKeyMap, result2, engineVars, setupVars>>

NextPK == ExtractPrimaryKey

SpecPK == InitPK /\ [][NextPK]_vars

(***************************************************************************)
(* Two rows resolved under the same key specification.                     *)
(***************************************************************************)
PairValues == {Num(1), Str(<<"1">>), Ref("o1"), Ref("o2")}
OtherValues == {Num(9)}

\* The rows that hold a and b, with or without a third field c, in every
\* insertion order.
PairRecords ==
  Rows2("a", "b", PairValues, PairValues) \cup Rows2("b", "a", PairValues, PairValues)
    \cup Rows3("a", "b", "c", PairValues, PairValues, OtherValues)
    \cup Rows3("a", "c", "b", PairValues, OtherValues, PairValues)
    \cup Rows3("c", "a", "b", OtherValues, PairValues, PairValues)
    \cup Rows3("b", "a", "c", PairValues, PairValues, OtherValues)
    \cup Rows3("b", "c", "a", PairValues, OtherValues, PairValues)
    \cup Rows3("c", "b", "a", OtherValues, PairValues, PairValues)

InitPair ==
  /\ tz \in TimeZones
  /\ record \in PairRecords
  /\ record2 \in PairRecords
  /\ tableName \in {"users", "orders"}
  /\ primaryKeyMap = << <<"users", KeyStr("a")>>, <<"orders", KeyArr(<<"a", "b">>)>> >>
  /\ result = NotCalled
  /\ result2 = NotCalled
  /\ config = [captureOldValues |-> FALSE]
  /\ EngineIdle
  /\ SetupIdle

ExtractFirst ==
  /\ result = NotCalled
  /\ result' = extractPrimaryKey(record, tableName, primaryKeyMap)
  /\ UNCHANGED <<tz, record, record2, tableName, primaryKeyMap, result2, engineVars, setupVars>>

ExtractSecond ==
  /\ result # NotCalled
  /\ result2 = NotCalled
  /\ result2' = extractPrimaryKey(record2, tableName, primaryKeyMap)
  /\ UNCHANGED <<tz, record, record2, tableName, primaryKeyMap, result, engineVars, setupVars>>

NextPair == ExtractFirst \/ ExtractSecond

SpecPair == InitPair /\ [][NextPair]_vars

(***************************************************************************)
(* Two rows of a table with a composite key, their key fields holding      *)
(* strings and integers.                                                   *)
(***************************************************************************)
\* Integers as numbers and as bigints, and strings, some spelling an integer.
IdValues ==
  {Num(1), Num(12), BigIntV(1), BigIntV(12),
   Str(<<"1">>), Str(<<"1", "2">>), Str(<<"\"">>)}

IdRecords ==
  Rows2("a", "b", IdValues, IdValues) \cup Rows2("b", "a", IdValues, IdValues)

InitIds ==
  /\ tz = [offset |-> 0, name |-> "Coordinated Universal Time"]
  /\ record \in IdRecords
  /\ record2 \in IdRecords
  /\ tableName = "orders"
  /\ primaryKeyMap = << <<"users", KeyStr("a")>>, <<"orders", KeyArr(<<"a", "b">>)>> >>
  /\ result = NotCalled
  /\ result2 = NotCalled
  /\ config = [captureOldValues |-> FALSE]
  /\ EngineIdle
  /\ SetupIdle

SpecIds == InitIds /\ [][NextPair]_vars

(***************************************************************************)
(* One call of createAuditTableSQLFor on no argument or on a name drawn    *)
(* from a bounded set of texts.                                            *)
(***************************************************************************)
MaxNameLen == 3

\* A letter of either case, the underscore, a digit, and characters that have
\* no place in an identifier.
NameChars == {"a", "Z", "_", "7", " ", "'", ";", ".", "\n"}

RECURSIVE Texts(_, _)
Texts(chars, n) ==
  IF n = 0 THEN {<<>>}
  ELSE LET shorter == Texts(chars, n - 1)
       IN shorter \cup {Append(t, ch) : t \in shorter, ch \in chars}

\* The engine and the identity resolver at rest.
ResolverIdle ==
  /\ tz = [offset |-> 0, name |-> "Coordinated Universal Time"]
  /\ record = <<>>
  /\ record2 = <<>>
  /\ tableName = AuditedTable
  /\ primaryKeyMap = << <<AuditedTable, KeyStr("id")>> >>
  /\ result = NotCalled
  /\ result2 = NotCalled
  /\ config = [captureOldValues |-> FALSE]
  /\ EngineIdle

InitName ==
  /\ ddlName \in {Undefined} \cup {Str(t) : t \in Texts(NameChars, MaxNameLen)}
  /\ ddlResult = NotCalled
  /\ DatabaseIdle
  /\ ResolverIdle

\* ddlResult = createAuditTableSQLFor(ddlName), or what it threw.
BuildSql ==
  /\ ddlResult = NotCalled
  /\ ddlResult' = createAuditTableSQLFor(ddlName)
  /\ UNCHANGED <<pkVars, engineVars, ddlName, setupName, setupSql, setupPc, setupPos,
                 catalog, work, advisoryLock, runs>>

NextName == BuildSql

SpecName == InitName /\ [][NextName]_vars

(***************************************************************************)
(* The setup script run against the database: db.execute(sql) sends the    *)
(* whole script, which the store runs statement by statement in one        *)
(* transaction.  Callers run it concurrently.                              *)
(***************************************************************************)
MaxRuns == 3

\* No argument (the default name), a custom name, and a name that is refused.
SetupNames == {Undefined, Str(<<"a", "2">>), Str(<<"a", ";">>)}

InitSetup ==
  /\ ddlName = Undefined
  /\ ddlResult = NotCalled
  /\ setupName = [c \in Callers |-> Undefined]
  /\ setupSql = [c \in Callers |-> <<>>]
  /\ setupPc = [c \in Callers |-> "idle"]
  /\ setupPos = [c \in Callers |-> 1]
  /\ catalog \in {{}, LegacyCatalog}
  /\ work = [c \in Callers |-> {}]
  /\ advisoryLock = "free"
  /\ runs = 0
  /\ ResolverIdle

\* The caller has the script built for a name; a refused name ends the run
\* before anything is sent.
Begin(c, arg, sql) ==
  /\ setupName' = [setupName EXCEPT ![c] = arg]
  /\ setupSql' = [setupSql EXCEPT ![c] = IF sql.kind = "return" THEN sql.value ELSE <<>>]
  /\ setupPc' = [setupPc EXCEPT ![c] = IF sql.kind = "return" THEN "running" ELSE "rejected"]
  /\ setupPos' = [setupPos EXCEPT ![c] = 1]

BuildSetupSql(c) ==
  /\ setupPc[c] = "idle"
  /\ runs < MaxRuns
  /\ runs' = runs + 1
  /\ \E arg \in SetupNames : Begin(c, arg, createAuditTableSQLFor(arg))
  /\ UNCHANGED <<pkVars, engineVars, ddlName, ddlResult, catalog, work, advisoryLock>>

\* The statement went through: its effect is in the transaction.
Proceed(c, st, outcome) ==
  /\ work' = [work EXCEPT ![c] = outcome.work]
  /\ setupPos' = [setupPos EXCEPT ![c] = @ + 1]
  /\ advisoryLock' = IF st.op = "SELECT pg_advisory_xact_lock" THEN c ELSE advisoryLock
  /\ UNCHANGED setupPc

\* The statement raised an error: the transaction is rolled back, its lock
\* released, and execute() rejects.
Abort(c) ==
  /\ work' = [work EXCEPT ![c] = {}]
  /\ setupPc' = [setupPc EXCEPT ![c] = "failed"]
  /\ advisoryLock' = IF advisoryLock = c THEN "free" ELSE advisoryLock
  /\ UNCHANGED setupPos

Execute(c, st, outcome) ==
  IF Collides(c, st) \/ ~outcome.ok THEN Abort(c) ELSE Proceed(c, st, outcome)

\* The store runs the next statement of caller c's script.
ExecuteStatement(c) ==
  /\ setupPc[c] = "running"
  /\ setupPos[c] <= Len(setupSql[c])
  /\ ~Waits(c, setupSql[c][setupPos[c]])
  /\ Execute(c, setupSql[c][setupPos[c]],
             Apply(work[c], SchemaView(c), setupSql[c][setupPos[c]]))
  /\ UNCHANGED <<pkVars, engineVars, ddlName, ddlResult, setupName, setupSql, catalog, runs>>

\* The script is through: the transaction commits, which publishes what it
\* wrote and releases the advisory lock.
CommitSetup(c) ==
  /\ setupPc[c] = "running"
  /\ setupPos[c] > Len(setupSql[c])
  /\ catalog' = SchemaView(c)
  /\ work' = [work EXCEPT ![c] = {}]
  /\ advisoryLock' = IF advisoryLock = c THEN "free" ELSE advisoryLock
  /\ setupPc' = [setupPc EXCEPT ![c] = "done"]
  /\ UNCHANGED <<pkVars, engineVars, ddlName, ddlResult, setupName, setupSql, setupPos, runs>>

\* The caller has its answer and may run the routine again.
EndSetup(c) ==
  /\ setupPc[c] \in {"done", "failed", "rejected"}
  /\ setupPc' = [setupPc EXCEPT ![c] = "idle"]
  /\ UNCHANGED <<pkVars, engineVars, ddlName, ddlResult, setupName, setupSql, setupPos,
                 catalog, work, advisoryLock, runs>>

NextSetup ==
  \E c \in Callers :
    \/ BuildSetupSql(c)
    \/ ExecuteStatement(c)
    \/ CommitSetup(c)
    \/ EndSetup(c)

SpecSetup == InitSetup /\ [][NextSetup]_vars

(***************************************************************************)
(* Properties of the engine (Spec).                                        *)
(***************************************************************************)
\* The row numbers of a sequence of rows.
IdsOf(rows) == [k \in 1..Len(rows) |-> RowNumber(rows[k])]

\* The rows statement c affected: the inserted row, else the rows as they were
\* immediately before the mutation.
AffectedRows(c) == IF stmt[c].action = "INSERT" THEN returned[c] ELSE pre[c]

\* The before-state read, if it ran, returned exactly the rows the statement
\* then affected.
SameRows(c) == IsSome(before[c]) => IdsOf(before[c].some) = IdsOf(pre[c])

\* The identity of a row of users under the configured key, written out.
IdentityOf(row) ==
  IF PropertyGet(primaryKeyMap, AuditedTable) = KeyStr("id")
  THEN NatToString(RowNumber(row))
  ELSE CharsToString(OwnValue(row, "code").chars)

\* One record per affected row, with the row's identity and the statement's
\* correlation id.
OnePerRow(c) ==
  /\ Len(built[c]) = Len(AffectedRows(c))
  /\ \A i \in 1..Len(built[c]) :
       /\ built[c][i].recordId = IdentityOf(AffectedRows(c)[i])
       /\ built[c][i].transactionId = stmt[c].txn
       /\ built[c][i].action = stmt[c].action

\* The engine threw an error of its own (not the store's).
EngineError(c) == pc[c] = "failed" /\ error[c] \notin {"none", StorageError}

RecordRow(r) ==
  RowNumber(IF IsSome(r.newValues) THEN r.newValues.some ELSE r.oldValues.some)

\* The durable mutation m has its audit record among A.
HasAudit(m, A) ==
  \E r \in A : r.transactionId = m.txn /\ r.action = m.action /\ RecordRow(r) = m.row

\* No caller is still executing statement t.
Over(t) == \A c \in Callers : stmt[c].txn # t

\* A rolled-back statement left neither a row change nor an audit record.
RollbackLeavesNothing ==
  \A t \in rolledBack :
    /\ \A m \in committed : m.txn # t
    /\ \A r \in audit : r.transactionId # t

\* The record describes a change the statement made to a row.
DescribesChange(r) == r.action = "UPDATE" => IsSome(r.newValues)

IsPrefix(p, q) == Len(p) <= Len(q) /\ \A k \in 1..Len(p) : p[k] = q[k]

Mutations(a) == {a \o " RETURNING", a \o " RETURNING (injected)"}

Updated(row) == [k \in 1..Len(row) |-> IF row[k][1] = "name" THEN <<"name", Str(<<"B">>)>> ELSE row[k]]

\* C4: with captureOldValues off, an UPDATE issues no read before the mutating
\* statement and still yields one record per updated row, with oldValues null,
\* changedFields null and newValues the row state the UPDATE returned.
C4_UpdateWithoutCapture ==
  \A c \in Callers :
    stmt[c].action = "UPDATE" /\ ~config.captureOldValues =>
      /\ \E m \in Mutations("UPDATE") : IsPrefix(queries[c], <<m, "INSERT audit">>)
      /\ pc[c] = "logged" =>
           /\ Len(built[c]) = Len(pre[c])
           /\ \A i \in 1..Len(built[c]) :
                /\ built[c][i].action = "UPDATE"
                /\ built[c][i].oldValues = None
                /\ built[c][i].changedFields = None
                /\ built[c][i].newValues = Some(Updated(pre[c][i]))
                /\ built[c][i].newValues = Some(returned[c][i])

\* C4 reached: an UPDATE of two rows without capture was logged.
C4_Witness ==
  \E c \in Callers :
    /\ pc[c] = "logged"
    /\ stmt[c].action = "UPDATE"
    /\ ~config.captureOldValues
    /\ Len(queries[c]) = 2
    /\ Len(built[c]) = 2

\* The fields whose values differ between two states of a row.
Differing(old, new) ==
  {new[k][1] : k \in {j \in 1..Len(new) : OwnValue(old, new[j][1]) # new[j][2]}}

\* Every updated row has a record that holds its state immediately before the
\* mutation, its state after it, and the fields that differ.
RecordsTheChange(c) ==
  \A i \in 1..Len(pre[c]) :
    \E k \in 1..Len(built[c]) :
      /\ built[c][k].oldValues = Some(pre[c][i])
      /\ built[c][k].newValues = Some(Updated(pre[c][i]))
      /\ IsSome(built[c][k].changedFields)
      /\ Range(built[c][k].changedFields.some) = Differing(pre[c][i], Updated(pre[c][i]))

\* The read, the mutation and the audit write, in this order.
ReadMutateWrite(c) ==
  \E m \in Mutations("UPDATE") : IsPrefix(queries[c], <<"SELECT", m, "INSERT audit">>)

\* C5 (as amended): with captureOldValues on, an UPDATE reads the target rows,
\* then executes the mutation, then writes the audit records, and every updated
\* row's record holds oldValues = its state immediately before the mutation,
\* newValues = its state after it and changedFields = the fields that differ --
\* provided no other caller's change to the target rows became visible between
\* the read and the mutation (the rows read are the rows as the mutation found
\* them).
C5_BeforeStateCaptured ==
  \A c \in Callers :
    stmt[c].action = "UPDATE" /\ config.captureOldValues =>
      /\ ReadMutateWrite(c)
      /\ pc[c] = "logged" /\ before[c] = Some(pre[c]) => RecordsTheChange(c)

\* C5 reached: an UPDATE with capture was logged with the before-state it read
\* still current, after another caller's statement had run.
C5_Witness ==
  \E c \in Callers :
    /\ pc[c] = "logged"
    /\ stmt[c].action = "UPDATE"
    /\ config.captureOldValues
    /\ before[c] = Some(pre[c])
    /\ Len(built[c]) = 2
    /\ queries[c] = <<"SELECT", "UPDATE RETURNING (injected)", "INSERT audit">>
    /\ issued = 2

\* C5 as stated: the same, whatever other callers' statements interleave.
C5_AsStated ==
  \A c \in Callers :
    stmt[c].action = "UPDATE" /\ config.captureOldValues =>
      /\ ReadMutateWrite(c)
      /\ pc[c] = "logged" => RecordsTheChange(c)

\* C10: when a row of a batch cannot be resolved to an identity the error
\* reaches the caller, no record of the batch is built and none is persisted:
\* the audit table holds the records of all the rows of a statement or of none.
C10_BatchFailsAsAWhole ==
  /\ \A c \in Callers :
       EngineError(c) =>
         /\ built[c] = <<>>
         /\ \A r \in audit \cup txAudit[c] : r.transactionId # stmt[c].txn
  /\ \A c \in Callers :
       pc[c] = "logged" => Len(built[c]) >= Len(returned[c])
  /\ \A m \in committed :
       (\E r \in audit : r.transactionId = m.txn) => HasAudit(m, audit)

\* C10 reached: the first row of a batch of two resolves, the second does not,
\* and the statement failed with nothing built.
C10_Witness ==
  \E c \in Callers :
    /\ EngineError(c)
    /\ error[c] = MissingError
    /\ Len(returned[c]) = 2
    /\ extractPrimaryKey(returned[c][1], AuditedTable, primaryKeyMap).kind = "return"
    /\ built[c] = <<>>

(***************************************************************************)
(* Properties of extractPrimaryKey (SpecPK, SpecPair).                     *)
(***************************************************************************)
\* The key specification the map holds for the table, if it has an entry.
HasEntry == HasOwn(primaryKeyMap, tableName)
Configured == OwnValue(primaryKeyMap, tableName)
ConfiguredFields == IF Configured.t = "array" THEN Configured.items ELSE <<Configured.name>>

\* Every configured key field of the row holds a value.
KeysPresent(rec) ==
  \A k \in 1..Len(ConfiguredFields) :
    HasOwn(rec, ConfiguredFields[k]) /\ ~IsNullish(OwnValue(rec, ConfiguredFields[k]))

\* The canonical string form of a value: numbers and strings directly, dates as
\* ISO-8601, large integers in decimal.
Canonical(v) ==
  CASE v.t = "number" -> IntToString(v.num)
    [] v.t = "string" -> CharsToString(v.chars)
    [] v.t = "bigint" -> IntToString(v.big)
    [] v.t = "date" -> CharsToString(ToISOChars(v.tv))

HasCanonicalForm(v) ==
  v.t \in {"number", "string", "bigint"} \/ (v.t = "date" /\ v.valid)

\* C6 as stated: for a single-field key whose field is present, the identity is
\* the field's value in canonical string form (numbers and strings directly,
\* dates as ISO-8601, large integers in decimal).
C6_AsStated ==
  result # NotCalled /\ HasEntry /\ Configured.t = "key" /\ KeysPresent(record)
    /\ HasCanonicalForm(OwnValue(record, Configured.name))
    => result = Return(Canonical(OwnValue(record, Configured.name)))

\* C6 reached: the identity of a row whose single key field is a date.
C6_Witness ==
  /\ result # NotCalled
  /\ HasEntry /\ Configured.t = "key" /\ KeysPresent(record)
  /\ OwnValue(record, Configured.name) = DateV(0)
  /\ result = Return("Thu Jan 01 1970 01:00:00 GMT+0100 (Central European Standard Time)")

\* C7 as stated: a table without an entry in the map fails with the
\* configuration error, and a row on which a configured key field is null or
\* undefined fails with the missing-key error.
C7_AsStated ==
  result # NotCalled =>
    /\ ~HasEntry => result = Throw(ConfigError)
    /\ HasEntry /\ ~KeysPresent(record) => result = Throw(MissingError)

\* C7 reached: a table named like a member of Object.prototype, without an
\* entry in the map.
C7_Witness ==
  /\ result # NotCalled
  /\ tableName = "constructor"
  /\ ~HasEntry
  /\ result = Throw(MissingError)

\* C9 as stated: a row that passes the presence check gets a string and no
\* exception; a cycle in a key value becomes the placeholder, and a failing
\* serialization the fallback of the sorted key names and their count.
C9_AsStated ==
  result # NotCalled /\ HasEntry /\ KeysPresent(record) =>
    /\ result.kind = "return"
    /\ Configured = KeyArr(<<"a", "b">>)
         /\ Ref("o5") \in {OwnValue(record, "a"), OwnValue(record, "b")}
         => result = Return("composite_key_a_b_2")
    /\ Configured = KeyArr(<<"a", "b">>) /\ OwnValue(record, "a") = Ref("o3")
         /\ OwnValue(record, "b") = Num(1)
         => result = Return("{\"a\":{\"p\":\"[Circular]\"},\"b\":1}")

\* C9 reached: a single key field that holds an object without a prototype.
C9_Witness ==
  /\ result # NotCalled
  /\ HasEntry /\ Configured.t = "key" /\ KeysPresent(record)
  /\ OwnValue(record, Configured.name) = Ref("o4")
  /\ result.kind = "throw"

\* Two values are structurally equal.
ValueEqual(v, w) ==
  IF v.t = "object" /\ w.t = "object" THEN heap[v.ref] = heap[w.ref] ELSE v = w

\* C8 as stated: under a composite key, two rows with equal values in the
\* configured key fields get the identical identity, whatever other fields they
\* hold and in whatever order their fields were inserted.
C8_AsStated ==
  result # NotCalled /\ result2 # NotCalled /\ HasEntry /\ Configured.t = "array"
    /\ (\A k \in 1..Len(ConfiguredFields) :
          ValueEqual(OwnValue(record, ConfiguredFields[k]),
                     OwnValue(record2, ConfiguredFields[k])))
    => result = result2

\* C8 reached: one row holds the same object in both key fields, the other two
\* equal objects.
C8_Witness ==
  /\ result # NotCalled /\ result2 # NotCalled /\ Configured.t = "array"
  /\ OwnValue(record, "a") = Ref("o1") /\ OwnValue(record, "b") = Ref("o1")
  /\ OwnValue(record2, "a") = Ref("o1") /\ OwnValue(record2, "b") = Ref("o2")
  /\ result = Return("{\"a\":{\"p\":1},\"b\":\"[Circular]\"}")
  /\ result2 = Return("{\"a\":{\"p\":1},\"b\":{\"p\":1}}")

(***************************************************************************)
(* Properties of the setup SQL builder (SpecName).                         *)
(***************************************************************************)
\* The name the builder works on: the argument, or the default without one.
GivenName == IF ddlName = Undefined THEN DEFAULT_TABLE_NAME ELSE ddlName.chars

\* Only letters, digits and underscores, and no digit in first place.
IsIdentifier(name) ==
  /\ Len(name) >= 1
  /\ \A i \in 1..Len(name) : name[i] \in LowerCase \cup UpperCase \cup Digits \cup {"_"}
  /\ name[1] \notin Digits

\* The relation names a script mentions.
NamesIn(sql) ==
  {Target(sql[k]) : k \in 1..Len(sql)} \cup
  {sql[k].table : k \in {j \in 1..Len(sql) : "table" \in DOMAIN sql[j]}}

\* The names a script for table t may mention: t, its sequence, its indexes.
NamesFor(t) ==
  {"none", t, t \o "_id_seq", "idx_audit_logs_table_record", "idx_audit_logs_user_id",
   "idx_audit_logs_created_at", "idx_audit_logs_action", "idx_audit_logs_table_created"}

\* C11: the builder returns SQL if and only if the name consists of letters,
\* digits and underscores and does not start with a digit; for every other name
\* it throws the invalid-table-name error and returns no SQL, and the SQL it
\* returns names the table by the validated name only.
C11_AcceptsExactlyIdentifiers ==
  ddlResult # NotCalled =>
    IF IsIdentifier(GivenName)
    THEN /\ ddlResult.kind = "return"
         /\ Len(ddlResult.value) > 0
         /\ CharsToString(GivenName) \in NamesIn(ddlResult.value)
         /\ NamesIn(ddlResult.value) \subseteq NamesFor(CharsToString(GivenName))
    ELSE ddlResult = Throw(InvalidTableName)

\* A name that starts as an identifier and goes on with a quote and a semicolon
\* has been refused.
C11_Witness ==
  /\ ddlName = Str(<<"a", "'", ";">>)
  /\ ddlResult = Throw(InvalidTableName)

\* A name of letters, an underscore and a digit has been accepted.
C11_Accepted ==
  /\ ddlName = Str(<<"_", "Z", "7">>)
  /\ ddlResult.kind = "return"

(***************************************************************************)
(* Properties of provisioning (SpecSetup).                                 *)
(***************************************************************************)
\* The table a caller's run provisions.
TableOf(c) ==
  CharsToString(IF setupName[c] = Undefined THEN DEFAULT_TABLE_NAME ELSE setupName[c].chars)

\* The five required indexes, by what they index.
RequiredIndexes ==
  {[columns |-> <<"table_name", "record_id">>, where |-> "none"],
   [columns |-> <<"user_id">>, where |-> "user_id IS NOT NULL"],
   [columns |-> <<"created_at DESC">>, where |-> "none"],
   [columns |-> <<"action">>, where |-> "none"],
   [columns |-> <<"table_name", "created_at DESC">>, where |-> "none"]}

\* What the indexes on table t index.
IndexesOn(t) ==
  {[columns |-> o.columns, where |-> o.where] :
     o \in {x \in catalog : x.kind = "index" /\ x.table = t}}

TablesIn(V) == {o.name : o \in {x \in V : x.kind = "table"}}

\* The schema a single run for table t leaves on an empty database.
SingleRun(t) ==
  {[kind |-> "sequence", name |-> t \o "_id_seq", ownedBy |-> t],
   [kind |-> "table", name |-> t, actionWidth |-> 255, constraints |-> {},
    comment |-> TRUE],
   [kind |-> "index", name |-> "idx_audit_logs_table_record", table |-> t,
    columns |-> <<"table_name", "record_id">>, where |-> "none"],
   [kind |-> "index", name |-> "idx_audit_logs_user_id", table |-> t,
    columns |-> <<"user_id">>, where |-> "user_id IS NOT NULL"],
   [kind |-> "index", name |-> "idx_audit_logs_created_at", table |-> t,
    columns |-> <<"created_at DESC">>, where |-> "none"],
   [kind |-> "index", name |-> "idx_audit_logs_action", table |-> t,
    columns |-> <<"action">>, where |-> "none"],
   [kind |-> "index", name |-> "idx_audit_logs_table_created", table |-> t,
    columns |-> <<"table_name", "created_at DESC">>, where |-> "none"]}

\* The callers whose script is past its lock statement.
InScript == {c \in Callers : setupPc[c] = "running" /\ setupPos[c] > 1}

\* C12: provisioning is idempotent and race-safe.  No run of the routine fails,
\* however many have run before it or run beside it; the runs are serialized by
\* the advisory lock, at most one script being past its lock statement and that
\* one holding the lock; and whenever the runs so far have provisioned one
\* table, the schema is the one a single run leaves: the table, its sequence
\* owned by the table, and the indexes.
C12_IdempotentAndRaceSafe ==
  /\ \A c \in Callers : setupPc[c] # "failed"
  /\ \A c \in InScript : advisoryLock = c
  /\ \A t \in TablesIn(catalog) :
       (TablesIn(catalog) = {t} /\ catalog # LegacyCatalog) => catalog = SingleRun(t)

\* A third run is inside its script on a database two earlier runs have
\* provisioned, while another caller's run waits for the advisory lock.
C12_Witness ==
  /\ runs = 3
  /\ catalog = SingleRun("audit_logs")
  /\ \E c \in Callers, d \in Callers :
       /\ c # d
       /\ setupPc[c] = "running" /\ setupPos[c] > 5 /\ advisoryLock = c
       /\ setupPc[d] = "running" /\ setupPos[d] = 1
       /\ TableOf(c) = "audit_logs" /\ TableOf(d) = "audit_logs"

\* Two first runs on a database without the table, one after the other through
\* the lock, have both committed.
C12_ConcurrentFirstRuns ==
  /\ catalog = SingleRun("audit_logs")
  /\ \A c \in Callers : setupPc[c] = "done" /\ TableOf(c) = "audit_logs"

(***************************************************************************)
(* Properties of the provisioned table (SpecSetup).                        *)
(***************************************************************************)
\* Table t carries the five required indexes, and its action column is at least
\* 255 wide with no constraint on it.
FullyProvisioned(t) ==
  /\ RequiredIndexes \subseteq IndexesOn(t)
  /\ \E o \in catalog :
       /\ o.kind = "table" /\ o.name = t
       /\ o.actionWidth >= 255
       /\ o.constraints = {}

\* C13: after the setup routine has run for a valid table name T, table T
\* itself carries the five required indexes and an action column of at least
\* 255 characters with no restricting constraint, whichever audit tables were
\* provisioned before it.
C13_AsStated ==
  \A c \in Callers : setupPc[c] = "done" => FullyProvisioned(TableOf(c))

\* The routine has run for a2 on a database where audit_logs was provisioned
\* before: a2 exists, widened and unconstrained, and no index is on it.
C13_Witness ==
  /\ \E c \in Callers : setupPc[c] = "done" /\ TableOf(c) = "a2"
  /\ FullyProvisioned("audit_logs")
  /\ "a2" \in TablesIn(catalog)
  /\ IndexesOn("a2") = {}

\* On a database with no other audit table the table is fully provisioned: a
\* completed run whose table is the only one leaves it with all it requires,
\* the upgrade of a table of an earlier version included.
C13_OnlyTable ==
  \A c \in Callers :
    (setupPc[c] = "done" /\ TablesIn(catalog) = {TableOf(c)}) => FullyProvisioned(TableOf(c))

(***************************************************************************)
(* Properties of composite identities (SpecIds).                           *)
(***************************************************************************)
\* Both rows have been given the same identity string.
SameIdentity ==
  result # NotCalled /\ result2 # NotCalled /\ result.kind = "return" /\ result = result2

\* The rows hold the same value, of the same type, in every configured key field.
SameKeyValues ==
  \A k \in 1..Len(ConfiguredFields) :
    OwnValue(record, ConfiguredFields[k]) = OwnValue(record2, ConfiguredFields[k])

\* No configured key field of either row holds a value of type ty.
NoKeyValueOf(ty) ==
  \A k \in 1..Len(ConfiguredFields) :
    /\ OwnValue(record, ConfiguredFields[k]).t # ty
    /\ OwnValue(record2, ConfiguredFields[k]).t # ty

\* C14: under a composite key whose field values are strings and integers, two
\* rows of the same table get the same identity string only if they hold equal
\* values, of the same type, in every configured key field.
C14_AsStated == SameIdentity => SameKeyValues

\* The bigint 12 and the string "12" in key field a, the same number in b: two
\* different rows under one identity.
C14_Witness ==
  /\ OwnValue(record, "a") = BigIntV(12) /\ OwnValue(record, "b") = Num(1)
  /\ OwnValue(record2, "a") = Str(<<"1", "2">>) /\ OwnValue(record2, "b") = Num(1)
  /\ SameIdentity

\* With strings and numbers only, identities separate rows.
C14_StringsAndNumbers ==
  (SameIdentity /\ NoKeyValueOf("bigint")) => SameKeyValues

\* The number 12 and the string "12" are kept apart.
C14_NumberAndString ==
  /\ OwnValue(record, "a") = Num(12) /\ OwnValue(record, "b") = Num(1)
  /\ OwnValue(record2, "a") = Str(<<"1", "2">>) /\ OwnValue(record2, "b") = Num(1)
  /\ result2 # NotCalled
  /\ result # result2

====
